---- MODULE Spec2Model ----
(***************************************************************************)
(* The request authentication and throttling pipeline of cohort-mine.      *)
(*                                                                         *)
(* The repository holds several independent Express servers.  Each is a    *)
(* program of its own; the variable `srv` says which program a behaviour   *)
(* runs:                                                                   *)
(*   "deepdive"    src/06-week-6/6.1-http-deepdive.js  (authenticateToken  *)
(*                 probing four carriers, users list, signup/signin)       *)
(*   "bearer"      src/unnamed/part_006 (Bearer-only authenticateToken)    *)
(*   "zod"         src/07-week-7/7.2-password-zod.js (auth, users in a     *)
(*                 MongoDB collection, tokens without expiry)              *)
(*   "middlewares" src/04-week-4/4.4-middlewares.js (rate limiter, request *)
(*                 counter, age check, error-handling middleware)          *)
(* Node runs every middleware chain of these servers synchronously, so one *)
(* request is one atomic action.                                           *)
(***************************************************************************)
EXTENDS Integers, Sequences, FiniteSets, Bags, TLC

VARIABLES
    srv,                      \* which server program is running
    now,                      \* the clock read by jwt.sign / jwt.verify
    users,                    \* the in-memory user list (array)
    storedToken,              \* the token the client keeps from its last /signin
    draft,                    \* the request a client is putting together
    verified,                 \* history: the jwt.verify calls made at the
                              \* current clock value, and what each returned
    last,                     \* the most recent request and its response
    numberOfRide1Requests,    \* 4.4: the rate-limit counter table
    requestCounter,           \* 4.4: total-requests counter
    inflight,                 \* 4.4: requests whose body express.json() is
                              \* still reading (a bag)
    received,                 \* history: requests received by the 4.4 server
    window,                   \* history: per key, the requests that entered
                              \* and that passed the limiter since the reset
    lastReset,                \* history: the table the last timer firing cleared
    pending,                  \* 6.1: requests accepted by the socket layer
                              \* that no middleware has run for yet
    answered,                 \* history: per request sent, the latest answer
                              \* and the clock and store it was given under
    requests,                 \* part_008: per limiter instance, the counter
                              \* object in the closure of rateLimiter
    asked,                    \* history: per instance and address, the
                              \* requests made so far
    kidney,                   \* 4.3: users[0] and its kidney list
    loggedOut                 \* history: POST /logout has been answered

vars == <<srv, now, users, storedToken, draft, verified, last,
          numberOfRide1Requests, requestCounter, inflight, received, window,
          lastReset, pending, answered, requests, asked, kidney, loggedOut>>

authVars == <<now, users, storedToken, verified>>
rateVars == <<numberOfRide1Requests, requestCounter, inflight, received, window,
              lastReset>>
shareVars == <<pending, answered>>
factoryVars == <<requests, asked>>

----------------------------------------------------------------------------
(* Bounds of the model *)

MaxTime == 2
MaxReceived == 4
MaxInFlight == 2

----------------------------------------------------------------------------
(* JavaScript values.  A string is a sequence of symbols; undefined and    *)
(* null are values without content.  `"Bearer"` is one symbol, a space is  *)
(* one symbol, and a whole JWT (which never contains a space) is one       *)
(* symbol carrying what its three segments encode.                         *)

Undefined == [def |-> FALSE, nul |-> FALSE]
Null == [def |-> FALSE, nul |-> TRUE]
Str(s) == [def |-> TRUE, s |-> s]

\* JS truthiness of a string-or-undefined value: undefined, null and "" are falsy
Truthy(v) == v.def /\ v.s # <<>>

Bearer == [c |-> "Bearer"]
Basic == [c |-> "Basic"]
SP == [c |-> " "]
Junk == [c |-> "not-a-jwt"]

\* A signed token: the key it was signed with, its payload's username, and
\* its exp claim (hasExp is FALSE when it was signed without expiresIn).
Jwt(key, username, hasExp, exp) ==
    [c |-> "jwt", key |-> key, username |-> username, hasExp |-> hasExp, exp |-> exp]

Usernames == {"alice", "bob"}
Passwords == {"pw"}

----------------------------------------------------------------------------
(* String helpers used by the middlewares *)

\* String.prototype.startsWith('Bearer ') behind `?.`: undefined is falsy
StartsWithBearer(v) ==
    v.def /\ Len(v.s) >= 2 /\ v.s[1] = Bearer /\ v.s[2] = SP

\* String.prototype.split(' '): the segments between spaces, empty ones kept
RECURSIVE SplitFrom(_, _, _)
SplitFrom(s, i, cur) ==
    IF i > Len(s) THEN <<cur>>
    ELSE IF s[i] = SP THEN <<cur>> \o SplitFrom(s, i + 1, <<>>)
    ELSE SplitFrom(s, i + 1, Append(cur, s[i]))

Split(s) == SplitFrom(s, 1, <<>>)

SplitIndex1_First(v) ==
    LET parts == Split(v.s)
    IN  IF Len(parts) >= 2 THEN Str(parts[1]) ELSE Undefined

\* header.split(' ')[1]: the second segment, undefined when there is none
SplitIndex1(v) ==
    LET parts == Split(v.s)
    IN  IF Len(parts) >= 2 THEN Str(parts[2]) ELSE Undefined

----------------------------------------------------------------------------
(* jsonwebtoken *)

JWT_SECRET == "your-secret-key"
BEARER_JWT_SECRET == "secret-key"
ZOD_JWT_SECRET == "process.env.JWT_SECRET"
AttackerKey == "attacker-key"

\* expiresIn of the two /signin handlers, in clock units: the clock of the
\* 6.1 server counts hours ('1h'), that of part_006 half days ('24h')
DeepdiveExpiresIn == 1
BearerExpiresIn == 2

\* jwt.sign(payload, secret, { expiresIn }): exp = clock + expiresIn
JwtSign(username, secret, expiresIn, t) ==
    Jwt(secret, username, TRUE, t + expiresIn)

JwtVerify_IgnoresExpiry(token, secret, t) ==
    IF ~(Len(token) = 1 /\ token[1].c = "jwt")
    THEN [ok |-> FALSE, name |-> "JsonWebTokenError", message |-> "jwt malformed"]
    ELSE IF token[1].key # secret
    THEN [ok |-> FALSE, name |-> "JsonWebTokenError", message |-> "invalid signature"]
    ELSE [ok |-> TRUE,
          decoded |-> [username |-> token[1].username,
                       hasExp |-> token[1].hasExp, exp |-> token[1].exp]]

JwtVerify_SingleUse(token, secret, t) ==
    IF ~(Len(token) = 1 /\ token[1].c = "jwt")
    THEN [ok |-> FALSE, name |-> "JsonWebTokenError", message |-> "jwt malformed"]
    ELSE IF token[1].key # secret
    THEN [ok |-> FALSE, name |-> "JsonWebTokenError", message |-> "invalid signature"]
    ELSE IF token[1].hasExp /\ t >= token[1].exp
    THEN [ok |-> FALSE, name |-> "TokenExpiredError", message |-> "jwt expired"]
    ELSE IF \E r \in verified : r.token = token /\ r.result = "ok"
    THEN [ok |-> FALSE, name |-> "JsonWebTokenError", message |-> "jwt used"]
    ELSE [ok |-> TRUE,
          decoded |-> [username |-> token[1].username,
                       hasExp |-> token[1].hasExp, exp |-> token[1].exp]]

JwtVerify_RevokedByLogout(token, secret, t) ==
    IF ~(Len(token) = 1 /\ token[1].c = "jwt")
    THEN [ok |-> FALSE, name |-> "JsonWebTokenError", message |-> "jwt malformed"]
    ELSE IF token[1].key # secret
    THEN [ok |-> FALSE, name |-> "JsonWebTokenError", message |-> "invalid signature"]
    ELSE IF token[1].hasExp /\ t >= token[1].exp
    THEN [ok |-> FALSE, name |-> "TokenExpiredError", message |-> "jwt expired"]
    ELSE IF loggedOut
    THEN [ok |-> FALSE, name |-> "JsonWebTokenError", message |-> "jwt revoked"]
    ELSE [ok |-> TRUE,
          decoded |-> [username |-> token[1].username,
                       hasExp |-> token[1].hasExp, exp |-> token[1].exp]]

\* jwt.verify(token, secret): the structure is checked first, then the
\* signature, and only then the exp claim against the clock, read once
\* (a token is expired from the instant exp on).
JwtVerify(token, secret, t) ==
    IF ~(Len(token) = 1 /\ token[1].c = "jwt")
    THEN [ok |-> FALSE, name |-> "JsonWebTokenError", message |-> "jwt malformed"]
    ELSE IF token[1].key # secret
    THEN [ok |-> FALSE, name |-> "JsonWebTokenError", message |-> "invalid signature"]
    ELSE IF token[1].hasExp /\ t >= token[1].exp
    THEN [ok |-> FALSE, name |-> "TokenExpiredError", message |-> "jwt expired"]
    ELSE [ok |-> TRUE,
          decoded |-> [username |-> token[1].username,
                       hasExp |-> token[1].hasExp, exp |-> token[1].exp]]

----------------------------------------------------------------------------
(* The user list *)

NoUser == [found |-> FALSE]

Find_FirstRecord(us, name) ==
    IF us = <<>> THEN NoUser
    ELSE [found |-> TRUE, username |-> us[1].username, password |-> us[1].password]

\* Array.prototype.find(u => u.username === name): the first match
Find(us, name) ==
    LET hits == {i \in 1..Len(us) : us[i].username = name}
    IN  IF hits = {} THEN NoUser
        ELSE LET i == CHOOSE j \in hits : \A k \in hits : j <= k
             IN  [found |-> TRUE, username |-> us[i].username,
                  password |-> us[i].password]

----------------------------------------------------------------------------
(* 6.1: the universal authentication middleware *)

ResolveToken_HeaderFirst(req) ==
    IF StartsWithBearer(req.authorization) THEN SplitIndex1(req.authorization)
    ELSE IF Truthy(req.cookie) THEN req.cookie
    ELSE IF Truthy(req.xAuthToken) THEN req.xAuthToken
    ELSE IF Truthy(req.query) THEN req.query
    ELSE Null

ResolveToken_SharedSlot(req) ==
    IF Truthy(req.cookie) THEN req.cookie
    ELSE IF StartsWithBearer(req.authorization) THEN SplitIndex1(req.authorization)
    ELSE IF Truthy(req.xAuthToken) THEN req.xAuthToken
    ELSE IF Truthy(req.query) THEN req.query
    ELSE IF last.kind = "auth" THEN last.out.token
    ELSE Null

\* The probe of the four carriers, an if / else-if chain: the first branch
\* whose CONDITION holds decides, whatever token it then yields.
ResolveToken(req) ==
    IF Truthy(req.cookie) THEN req.cookie
    ELSE IF StartsWithBearer(req.authorization) THEN SplitIndex1(req.authorization)
    ELSE IF Truthy(req.xAuthToken) THEN req.xAuthToken
    ELSE IF Truthy(req.query) THEN req.query
    ELSE Null

NoTokenFound_NullOnly(token) == ~token.def

\* `if (!token)`
NoTokenFound(token) == ~Truthy(token)

\* What a middleware run leaves behind: the candidate token, the stages that
\* ran, in the order they ran ("resolve", "verify", "lookup", "handler"),
\* the response (status, message) and what was attached to req.  Each place
\* that builds an Outcome is one res.json(...) call of the source: sent
\* counts the responses written.
Outcome(token, ran, status, message, user, tokenData) ==
    [token |-> token, ran |-> ran, status |-> status, message |-> message,
     user |-> user, tokenData |-> tokenData, sent |-> 1]

NoData == [present |-> FALSE]

\* The catch block of authenticateToken: it receives whatever was thrown
\* inside the try, by jwt.verify or by the user lookup
CatchBlock(token, ran, errorName) ==
    IF errorName = "TokenExpiredError"
    THEN Outcome(token, ran, 401, "Token expired", NoUser, NoData)
    ELSE Outcome(token, ran, 401, "Invalid token", NoUser, NoData)

ProtectedRoute_Retried(token, ran, user, decoded) ==
    Outcome(token, Append(Append(ran, "handler"), "handler"), 200, "ok", user,
            [present |-> TRUE, username |-> decoded.username,
             hasExp |-> decoded.hasExp, exp |-> decoded.exp])

ProtectedRoute_PrincipalOnly(token, ran, user, decoded) ==
    Outcome(token, Append(ran, "handler"), 200, "ok", user, NoData)

\* The protected route handlers (/me, /dashboard, /profile, /settings)
ProtectedRoute(token, ran, user, decoded) ==
    Outcome(token, Append(ran, "handler"), 200, "ok", user,
            [present |-> TRUE, username |-> decoded.username,
             hasExp |-> decoded.hasExp, exp |-> decoded.exp])

authenticateToken_SkipLookup(req, us, t, fault) ==
    LET token == ResolveToken(req)
    IN  IF NoTokenFound(token)
        THEN Outcome(token, <<"resolve">>, 401,
                     "Authentication required. No token provided.", NoUser, NoData)
        ELSE LET v == JwtVerify(token.s, JWT_SECRET, t)
             IN  IF ~v.ok THEN CatchBlock(token, <<"resolve", "verify">>, v.name)
                 ELSE ProtectedRoute(token, <<"resolve", "verify">>,
                                     [found |-> TRUE, username |-> v.decoded.username],
                                     v.decoded)

\* authenticateToken(req, res, next) followed by the route handler.
\* fault: the user lookup throws (a fault of the store).
authenticateToken(req, us, t, fault) ==
    LET token == ResolveToken(req)
    IN  IF NoTokenFound(token)
        THEN Outcome(token, <<"resolve">>, 401,
                     "Authentication required. No token provided.", NoUser, NoData)
        ELSE LET v == JwtVerify(token.s, JWT_SECRET, t)
             IN  IF ~v.ok THEN CatchBlock(token, <<"resolve", "verify">>, v.name)
                 ELSE IF fault
                 THEN CatchBlock(token, <<"resolve", "verify", "lookup">>, "Error")
                 ELSE LET user == Find(us, v.decoded.username)
                      IN  IF ~user.found
                          THEN Outcome(token, <<"resolve", "verify", "lookup">>, 401,
                                       "User not found", NoUser, NoData)
                          ELSE ProtectedRoute(token, <<"resolve", "verify", "lookup">>,
                                              user, v.decoded)

----------------------------------------------------------------------------
(* part_006: the Bearer-only authentication middleware *)

\* `authHeader && authHeader.split(' ')[1]`
BearerToken(authHeader) ==
    IF ~Truthy(authHeader) THEN authHeader ELSE SplitIndex1(authHeader)

\* authenticateToken of part_006 followed by GET /me: no user lookup, the
\* decoded payload itself becomes req.user
authenticateTokenBearer(req, t) ==
    LET token == BearerToken(req.authorization)
    IN  IF ~Truthy(token)
        THEN Outcome(token, <<"resolve">>, 401, "Access token required",
                     NoUser, NoData)
        ELSE LET v == JwtVerify(token.s, BEARER_JWT_SECRET, t)
             IN  IF ~v.ok
                 THEN Outcome(token, <<"resolve", "verify">>, 403,
                              "Invalid or expired token", NoUser, NoData)
                 ELSE Outcome(token, <<"resolve", "verify", "handler">>, 200, "ok",
                              [found |-> TRUE, username |-> v.decoded.username],
                              [present |-> TRUE, username |-> v.decoded.username,
                               hasExp |-> v.decoded.hasExp, exp |-> v.decoded.exp])

----------------------------------------------------------------------------
(* 7.2: auth *)

\* `req.headers.authorization?.split(' ')[1]`
ZodToken(authHeader) ==
    IF ~authHeader.def THEN Undefined ELSE SplitIndex1(authHeader)

\* auth of 7.2 followed by GET /todos: the decoded userId becomes
\* req.userId, the users collection is not consulted
auth(req, t) ==
    LET token == ZodToken(req.authorization)
    IN  IF ~Truthy(token)
        THEN Outcome(token, <<"resolve">>, 401, "Unauthorized", NoUser, NoData)
        ELSE LET v == JwtVerify(token.s, ZOD_JWT_SECRET, t)
             IN  IF ~v.ok
                 THEN Outcome(token, <<"resolve", "verify">>, 401, "Invalid token",
                              NoUser, NoData)
                 ELSE Outcome(token, <<"resolve", "verify", "handler">>, 200, "ok",
                              [found |-> TRUE, username |-> v.decoded.username],
                              [present |-> TRUE, username |-> v.decoded.username,
                               hasExp |-> v.decoded.hasExp, exp |-> v.decoded.exp])

----------------------------------------------------------------------------
(* What clients can send *)

\* A forged token: signed with a key that is not the server's
Forged == {Jwt(AttackerKey, "alice", TRUE, 1)}

\* Token strings a client can put into a carrier: garbage, a forged token,
\* or the token it stored after signing in
Tokens ==
    {<<Junk>>} \cup {<<j>> : j \in Forged}
    \cup (IF storedToken.def THEN {storedToken.s} ELSE {})

\* A cookie, the x-auth-token header or the token query parameter: absent,
\* empty, or a token string
CarrierVals == {Undefined, Str(<<>>)} \cup {Str(t) : t \in Tokens}

\* Authorization header values (Node strips leading and trailing blanks of a
\* header value, so none ends in a space): absent, the bare scheme, the
\* scheme with one or with two spaces before the token, another scheme
AuthorizationVals ==
    {Undefined, Str(<<Bearer>>), Str(<<Basic, SP, Junk>>),
     Str(<<Bearer, SP, SP, Junk>>), Str(<<Bearer, SP, Junk, SP, Junk>>)}
    \cup {Str(<<Bearer, SP>> \o t) : t \in Tokens}

BlankRequest ==
    [cookie |-> Undefined, authorization |-> Undefined,
     xAuthToken |-> Undefined, query |-> Undefined]

\* Request bodies of /signup and /signin: a field is a name or missing ("")
BodyUsernames == Usernames \cup {""}
BodyPasswords == Passwords \cup {""}

----------------------------------------------------------------------------
(* Initial states *)

EmptyTable == [k \in {} |-> 0]

NoRequest == [kind |-> "none"]

AuthInit ==
    /\ now = 0
    /\ users = <<>>
    /\ storedToken = Undefined
    /\ draft = BlankRequest
    /\ verified = {}
    /\ pending = {}
    /\ answered = {}

\* part_008 and the README of week 5: the routes that are given a limiter
\* of their own, `app.get('/api/data', rateLimiter(5), ...)` and
\* `app.get('/api/free', rateLimiter(10), ...)`
FactoryRoutes == {"/api/data", "/api/free"}
Ips == {"::1", "10.0.0.2"}

\* users.js of 4.3 before the first request: John with the two kidneys of
\* the README, or no user at all
NoJohn == [present |-> FALSE]
John == [present |-> TRUE, list |-> <<FALSE, TRUE>>]

\* The state of the servers a behaviour does not run
IdleInit ==
    /\ requests = [r \in FactoryRoutes |-> EmptyTable]
    /\ asked = [r \in FactoryRoutes |-> [ip \in Ips |-> 0]]
    /\ kidney = NoJohn
    /\ loggedOut = FALSE

RateInit ==
    /\ numberOfRide1Requests = EmptyTable
    /\ requestCounter = 0
    /\ inflight = EmptyBag
    /\ received = 0
    /\ window = EmptyTable
    /\ lastReset = [fired |-> FALSE]

----------------------------------------------------------------------------
(* Environment of the auth servers *)

IsAuthServer == srv \in {"deepdive", "bearer", "zod"}

\* The clock advances
Tick ==
    /\ IsAuthServer
    /\ now < MaxTime
    /\ now' = now + 1
    /\ UNCHANGED <<srv, shareVars, factoryVars, kidney, loggedOut, users, storedToken, draft, verified, last, rateVars>>

\* A client, having read the last response, puts its next request together
\* carrier by carrier: req.cookies.token, req.headers.authorization,
\* req.headers['x-auth-token'], req.query.token
SetCookie(v) ==
    /\ srv = "deepdive"
    /\ draft.cookie # v
    /\ draft' = [draft EXCEPT !.cookie = v]
    /\ last' = NoRequest
    /\ UNCHANGED <<srv, shareVars, factoryVars, kidney, loggedOut, authVars, rateVars>>

SetAuthorization(v) ==
    /\ IsAuthServer
    /\ draft.authorization # v
    /\ draft' = [draft EXCEPT !.authorization = v]
    /\ last' = NoRequest
    /\ UNCHANGED <<srv, shareVars, factoryVars, kidney, loggedOut, authVars, rateVars>>

SetXAuthToken(v) ==
    /\ srv = "deepdive"
    /\ draft.xAuthToken # v
    /\ draft' = [draft EXCEPT !.xAuthToken = v]
    /\ last' = NoRequest
    /\ UNCHANGED <<srv, shareVars, factoryVars, kidney, loggedOut, authVars, rateVars>>

SetQuery(v) ==
    /\ srv = "deepdive"
    /\ draft.query # v
    /\ draft' = [draft EXCEPT !.query = v]
    /\ last' = NoRequest
    /\ UNCHANGED <<srv, shareVars, factoryVars, kidney, loggedOut, authVars, rateVars>>

----------------------------------------------------------------------------
(* The auth servers: 6.1 ("deepdive") and part_006 ("bearer") *)

SignupResponse_NoDuplicateCheck(us, username, password) ==
    IF username = "" \/ password = ""
    THEN [status |-> 400, message |-> "Username and password are required"]
    ELSE [status |-> 201, message |-> "User created successfully"]

\* POST /signup (the same handler in 6.1 and part_006; in 7.2 the body is
\* validated by a zod schema and the unique index of the collection
\* rejects a second record of the same email)
SignupResponse(us, username, password) ==
    IF username = "" \/ password = ""
    THEN [status |-> 400,
          message |-> IF srv = "zod" THEN "result.error.message"
                      ELSE "Username and password are required"]
    ELSE IF Find(us, username).found
    THEN [status |-> 409,
          message |-> IF srv = "zod" THEN "Email already exists"
                      ELSE "User already exists"]
    ELSE [status |-> 201, message |-> "User created successfully"]

Signup(username, password) ==
    LET r == SignupResponse(users, username, password)
    IN  /\ IsAuthServer
        /\ users' = IF r.status = 201
                    THEN Append(users, [username |-> username, password |-> password])
                    ELSE users
        /\ last' = [kind |-> "signup", username |-> username,
                    password |-> password, status |-> r.status,
                    message |-> r.message]
        /\ draft' = BlankRequest
        /\ UNCHANGED <<srv, shareVars, factoryVars, kidney, loggedOut, now, storedToken, verified, rateVars>>

\* users.find(user => user.username === username && user.password === password)
FindCredentials(us, username, password) ==
    \E i \in 1..Len(us) : us[i].username = username /\ us[i].password = password

generateToken_AlwaysExpiring(username, t) ==
    IF srv = "deepdive"
    THEN JwtSign(username, JWT_SECRET, DeepdiveExpiresIn, t)
    ELSE IF srv = "bearer"
    THEN JwtSign(username, BEARER_JWT_SECRET, BearerExpiresIn, t)
    ELSE JwtSign(username, ZOD_JWT_SECRET, DeepdiveExpiresIn, t)

\* generateToken(username) of 6.1, the jwt.sign call of part_006, and that
\* of 7.2, which passes no expiresIn
generateToken(username, t) ==
    IF srv = "deepdive"
    THEN JwtSign(username, JWT_SECRET, DeepdiveExpiresIn, t)
    ELSE IF srv = "bearer"
    THEN JwtSign(username, BEARER_JWT_SECRET, BearerExpiresIn, t)
    ELSE Jwt(ZOD_JWT_SECRET, username, FALSE, 0)

\* POST /signin: part_006 first rejects a missing field with 400
SigninStatus(us, username, password) ==
    IF srv = "bearer" /\ (username = "" \/ password = "") THEN 400
    ELSE IF ~FindCredentials(us, username, password) THEN 401
    ELSE 200

\* (of /login of 7.2 the requests with both fields are covered)
Signin(username, password) ==
    LET status == SigninStatus(users, username, password)
        token == generateToken(username, now)
    IN  /\ IsAuthServer
        /\ srv = "zod" => (username # "" /\ password # "")
        /\ storedToken' = IF status = 200 THEN Str(<<token>>) ELSE storedToken
        /\ last' = [kind |-> "signin", username |-> username,
                    password |-> password, status |-> status,
                    token |-> IF status = 200 THEN Str(<<token>>) ELSE Undefined,
                    cookie |-> IF status = 200 /\ srv = "deepdive"
                               THEN Str(<<token>>) ELSE Undefined]
        /\ draft' = BlankRequest
        /\ UNCHANGED <<srv, shareVars, factoryVars, kidney, loggedOut, now, users, verified, rateVars>>

ProtectedRequest_Provisioning(storeFault) ==
    LET out == authenticateToken(draft, users, now, storeFault)
    IN  /\ srv = "deepdive"
        /\ last' = [kind |-> "auth", req |-> draft, storeFault |-> storeFault,
                    at |-> now, users |-> users, out |-> out]
        /\ draft' = BlankRequest
        /\ users' = IF out.message = "User not found"
                    THEN Append(users, [username |-> out.token.s[1].username,
                                        password |-> ""])
                    ELSE users
        /\ UNCHANGED <<srv, shareVars, factoryVars, kidney, loggedOut, now, storedToken, verified, rateVars>>

\* The client sends its request to a protected route of 6.1; storeFault
\* says whether the user lookup throws during this request
ProtectedRequest(storeFault) ==
    /\ srv = "deepdive"
    /\ last' = [kind |-> "auth", req |-> draft, storeFault |-> storeFault,
                at |-> now, users |-> users,
                out |-> authenticateToken(draft, users, now, storeFault)]
    /\ draft' = BlankRequest
    /\ UNCHANGED <<srv, shareVars, factoryVars, kidney, loggedOut, authVars, rateVars>>

\* The client sends its request to GET /me of part_006
BearerRequest ==
    /\ srv = "bearer"
    /\ last' = [kind |-> "auth", req |-> draft, storeFault |-> FALSE,
                at |-> now, users |-> users,
                out |-> authenticateTokenBearer(draft, now)]
    /\ draft' = BlankRequest
    /\ UNCHANGED <<srv, shareVars, factoryVars, kidney, loggedOut, authVars, rateVars>>

\* The client sends its request to GET /todos of 7.2
ZodRequest ==
    /\ srv = "zod"
    /\ last' = [kind |-> "auth", req |-> draft, storeFault |-> FALSE,
                at |-> now, users |-> users,
                out |-> auth(draft, now)]
    /\ draft' = BlankRequest
    /\ UNCHANGED <<srv, shareVars, factoryVars, kidney, loggedOut, authVars, rateVars>>

\* The user store loses its records: `const users = []` of 6.1 and part_006
\* lives in the process and is empty again after a restart; the documents
\* of the users collection of 7.2 can be deleted in the database.  Tokens
\* that clients hold, and the secret, stay what they were.
StoreEmptied ==
    /\ IsAuthServer
    /\ users # <<>>
    /\ users' = <<>>
    /\ last' = NoRequest
    /\ UNCHANGED <<srv, shareVars, factoryVars, kidney, loggedOut, now, storedToken, draft, verified, rateVars>>

AuthNext ==
    \/ Tick
    \/ StoreEmptied
    \/ ZodRequest
    \/ \E v \in CarrierVals : SetCookie(v)
    \/ \E v \in AuthorizationVals : SetAuthorization(v)
    \/ \E v \in CarrierVals : SetXAuthToken(v)
    \/ \E v \in CarrierVals : SetQuery(v)
    \/ \E u \in BodyUsernames, p \in BodyPasswords : Signup(u, p)
    \/ \E u \in BodyUsernames, p \in BodyPasswords : Signin(u, p)
    \/ \E f \in BOOLEAN : ProtectedRequest(f)
    \/ BearerRequest

SpecAuthInit ==
    /\ srv \in {"deepdive", "bearer", "zod"}
    /\ last = NoRequest
    /\ AuthInit
    /\ RateInit
    /\ IdleInit

SpecAuth == SpecAuthInit /\ [][AuthNext]_vars

----------------------------------------------------------------------------
(* The 6.1 server with several requests under way: the socket layer accepts *)
(* requests in any number, the event loop runs the middleware chain of one  *)
(* of them at a time, in any order                                          *)

\* The requests of three clients: one without a credential, one with a
\* token of alice in the Authorization header, one with a token of bob in
\* the cookie
SharedRequests ==
    {BlankRequest,
     [BlankRequest EXCEPT !.authorization =
         Str(<<Bearer, SP, JwtSign("alice", JWT_SECRET, DeepdiveExpiresIn, 0)>>)],
     [BlankRequest EXCEPT !.cookie =
         Str(<<JwtSign("bob", JWT_SECRET, DeepdiveExpiresIn, 0)>>)]}

\* A request reaches the server while others wait for the event loop
RequestArrives(req) ==
    /\ srv = "deepdive"
    /\ req \notin pending
    /\ Cardinality(pending) < MaxInFlight
    /\ pending' = pending \cup {req}
    /\ UNCHANGED <<srv, authVars, rateVars, draft, last, answered, factoryVars,
                   kidney, loggedOut>>

\* The event loop runs authenticateToken and the route handler for one of
\* the requests under way
ProtectedRequestServed(req, storeFault) ==
    LET out == authenticateToken(req, users, now, storeFault)
    IN  /\ srv = "deepdive"
        /\ req \in pending
        /\ pending' = pending \ {req}
        /\ last' = [kind |-> "auth", req |-> req, storeFault |-> storeFault,
                    at |-> now, users |-> users, out |-> out]
        /\ answered' = {a \in answered : a.req # req}
                         \cup {[req |-> req, storeFault |-> storeFault,
                                at |-> now, users |-> users, out |-> out]}
        /\ UNCHANGED <<srv, authVars, rateVars, draft, factoryVars, kidney,
                       loggedOut>>

ShareNext ==
    \/ Tick
    \/ StoreEmptied
    \/ \E req \in SharedRequests : RequestArrives(req)
    \/ \E req \in SharedRequests, f \in BOOLEAN : ProtectedRequestServed(req, f)

\* alice and bob have signed up
SpecShareInit ==
    /\ srv = "deepdive"
    /\ last = NoRequest
    /\ now = 0
    /\ users = <<[username |-> "alice", password |-> "pw"],
                 [username |-> "bob", password |-> "pw"]>>
    /\ storedToken = Undefined
    /\ draft = BlankRequest
    /\ verified = {}
    /\ pending = {}
    /\ answered = {}
    /\ RateInit
    /\ IdleInit

SpecShare == SpecShareInit /\ [][ShareNext]_vars

----------------------------------------------------------------------------
(* jwt.verify on its own: the call of authenticateToken, applied to tokens  *)
(* of every kind while the clock stands still and after it has moved on    *)

\* Tokens handed to jwt.verify: no JWT at all, one signed with another key,
\* and tokens signed with JWT_SECRET that expire at 1 and at 2
VerifyTokens ==
    {<<Junk>>, <<Jwt(AttackerKey, "alice", TRUE, 1)>>,
     <<Jwt(JWT_SECRET, "alice", TRUE, 1)>>, <<Jwt(JWT_SECRET, "bob", TRUE, 2)>>}

\* What the try / catch around jwt.verify tells apart: the call returned,
\* or the name of the error it threw
VerifyResult(v) == IF v.ok THEN "ok" ELSE v.name

\* `jwt.verify(token, JWT_SECRET)` is called with a token
Verify(token) ==
    LET result == VerifyResult(JwtVerify(token, JWT_SECRET, now))
        again == \E r \in verified : r.token = token
    IN  /\ srv = "deepdive"
        /\ verified' = verified \cup
               {[token |-> token, at |-> now, result |-> result, again |-> again]}
        /\ last' = [kind |-> "verify", token |-> token, at |-> now,
                    result |-> result, again |-> again]
        /\ UNCHANGED <<srv, shareVars, factoryVars, kidney, loggedOut, now, users, storedToken, draft, rateVars>>

\* The clock moves on: the record of the calls at the old clock value is
\* dropped
ClockAdvances ==
    /\ now < MaxTime
    /\ now' = now + 1
    /\ verified' = {}
    /\ last' = NoRequest
    /\ UNCHANGED <<srv, shareVars, factoryVars, kidney, loggedOut, users, storedToken, draft, rateVars>>

VerifyNext ==
    \/ \E token \in VerifyTokens : Verify(token)
    \/ ClockAdvances

SpecVerifyInit ==
    /\ srv = "deepdive"
    /\ last = NoRequest
    /\ AuthInit
    /\ RateInit
    /\ IdleInit

SpecVerify == SpecVerifyInit /\ [][VerifyNext]_vars

----------------------------------------------------------------------------
(* 4.4: rate limiter, request counter, age check, error handler *)

\* JavaScript values a property of the counter object can hold or yield
Num(n) == [t |-> "number", n |-> n]
TextValue == [t |-> "string"]
FunctionValue == [t |-> "function"]
UndefinedValue == [t |-> "undefined"]

\* A request header holding a name, and its absence
Name(n) == [def |-> TRUE, name |-> n]
Absent == [def |-> FALSE]

\* `numberOfRide1Requests = {}` is a plain object: a key it does not own is
\* looked up on Object.prototype, which has constructor, toString, ...
ObjectPrototypeKeys == {"constructor"}

PropertyKey_Shared(userId) == "ride1"

\* obj[userId]: the key is the header's text, "undefined" without a header
PropertyKey(userId) == IF userId.def THEN userId.name ELSE "undefined"

GetProperty(table, key) ==
    IF key \in DOMAIN table THEN table[key]
    ELSE IF key \in ObjectPrototypeKeys THEN FunctionValue
    ELSE UndefinedValue

SetProperty(table, key, value) ==
    [k \in DOMAIN table \cup {key} |-> IF k = key THEN value ELSE table[k]]

\* (v || 0) + 1: a number counts up, undefined starts at 1, and a function
\* or a string is truthy, so + concatenates and yields a string
OrZeroPlusOne(v) ==
    IF v.t = "number" THEN Num(v.n + 1)
    ELSE IF v.t = "undefined" THEN Num(1)
    ELSE TextValue

\* v > limit: a string that is no numeral converts to NaN, and NaN > n is false
GreaterThan(v, limit) == v.t = "number" /\ v.n > limit

\* `> 1` of the rate limiter
RateLimit == 1

RateLimiter_CheckFirst(table, userId) ==
    LET key == PropertyKey(userId)
        value == GetProperty(table, key)
    IN  IF value.t = "number" /\ value.n >= RateLimit
        THEN [table |-> table, reject |-> TRUE]
        ELSE [table |-> SetProperty(table, key, OrZeroPlusOne(value)),
              reject |-> FALSE]

RateLimiter_OffByOne(table, userId) ==
    LET key == PropertyKey(userId)
        value == OrZeroPlusOne(GetProperty(table, key))
    IN  [table |-> SetProperty(table, key, value),
         reject |-> GreaterThan(value, RateLimit + 1)]

RateLimiter_SkipsAnonymous(table, userId) ==
    LET key == PropertyKey(userId)
        value == OrZeroPlusOne(GetProperty(table, key))
    IN  IF ~userId.def THEN [table |-> table, reject |-> FALSE]
        ELSE [table |-> SetProperty(table, key, value),
              reject |-> GreaterThan(value, RateLimit)]

\* The rate limiting middleware: count first, then compare
RateLimiter(table, userId) ==
    LET key == PropertyKey(userId)
        value == OrZeroPlusOne(GetProperty(table, key))
    IN  [table |-> SetProperty(table, key, value),
         reject |-> GreaterThan(value, RateLimit)]

\* parseInt: the leading decimal digits of the text, NaN (here -1) if none
Digits == <<"0", "1", "2", "3", "4", "5", "6", "7", "8", "9">>
IsDigit(ch) == \E d \in 1..10 : Digits[d] = ch
DigitValue(ch) == (CHOOSE d \in 1..10 : Digits[d] = ch) - 1
NaN == -1

RECURSIVE ParseDigits(_, _, _)
ParseDigits(s, i, acc) ==
    IF i > Len(s) \/ ~IsDigit(s[i]) THEN acc
    ELSE ParseDigits(s, i + 1, acc * 10 + DigitValue(s[i]))

ParseInt(v) ==
    IF ~v.def \/ v.s = <<>> \/ ~IsDigit(v.s[1]) THEN NaN
    ELSE ParseDigits(v.s, 1, 0)

\* isOldEnough: TRUE when the request may pass
MinimumAge == 18
isOldEnough(age) ==
    LET n == ParseInt(age) IN ~(n = NaN \/ n < MinimumAge)

\* express.json(): a body that is no JSON makes it call next(err), and the
\* message of err quotes the offending body
NoBody == [given |-> FALSE]
Body(text) == [given |-> TRUE, text |-> text]
MalformedBodies == {"a", "{"}
JsonError(body) ==
    IF ~body.given THEN [thrown |-> FALSE]
    ELSE IF body.text = "a"
    THEN [thrown |-> TRUE, message |-> "Unexpected token a in JSON at position 0"]
    ELSE IF body.text = "{"
    THEN [thrown |-> TRUE, message |-> "Unexpected end of JSON input"]
    ELSE [thrown |-> FALSE]

\* The error-handling middleware: res.status(500).json({ error: err.message })
\* It writes nothing to the console.
ErrorHandler(message) ==
    [status |-> 500, message |-> message, log |-> <<>>, sent |-> 1]

Route_ErrorSwallowed(path, age) ==
    IF path = "/"
    THEN [ran |-> <<"route /", "errorHandler", "route /ride1">>, status |-> 200,
          message |-> "you have successfully ridden the ride1", log |-> <<>>,
          sent |-> 1]
    ELSE IF path = "/ride1"
    THEN IF isOldEnough(age)
         THEN [ran |-> <<"isOldEnough", "route /ride1">>, status |-> 200,
               message |-> "you have successfully ridden the ride1", log |-> <<>>,
               sent |-> 1]
         ELSE [ran |-> <<"isOldEnough">>, status |-> 401,
               message |-> "You are not old enough to ride the ride1", log |-> <<>>,
               sent |-> 1]
    ELSE [ran |-> <<>>, status |-> 404, message |-> "Not Found", log |-> <<>>,
          sent |-> 1]

\* The routes behind the two app.use middlewares (a path without a route is
\* answered 404 by Express itself)
Route(path, age) ==
    IF path = "/"
    THEN [ran |-> <<"route /", "errorHandler">>] @@ ErrorHandler("This is a test error")
    ELSE IF path = "/ride1"
    THEN IF isOldEnough(age)
         THEN [ran |-> <<"isOldEnough", "route /ride1">>, status |-> 200,
               message |-> "you have successfully ridden the ride1", log |-> <<>>,
               sent |-> 1]
         ELSE [ran |-> <<"isOldEnough">>, status |-> 401,
               message |-> "You are not old enough to ride the ride1", log |-> <<>>,
               sent |-> 1]
    ELSE [ran |-> <<>>, status |-> 404, message |-> "Not Found", log |-> <<>>,
          sent |-> 1]

HandleRequest_NoReturn(req, table, counter) ==
    LET parse == JsonError(req.body)
        limit == RateLimiter(table, req.userId)
        r == Route(req.path, req.age)
    IN  IF parse.thrown
        THEN [table |-> table, counter |-> counter,
              out |-> [ran |-> <<"errorHandler">>] @@ ErrorHandler(parse.message)]
        ELSE [table |-> limit.table, counter |-> counter + 1,
              out |-> [ran |-> <<"rateLimiter", "requestCounter">> \o r.ran,
                       status |-> IF limit.reject THEN 429 ELSE r.status,
                       message |-> r.message,
                       log |-> <<"Total requests">> \o r.log,
                       sent |-> (IF limit.reject THEN 1 ELSE 0) + r.sent]]

\* One request through the whole chain of 4.4: express.json, rate limiter,
\* request counter, route, error handler.  Yields the new table, the new
\* counter and what the request saw.
HandleRequest(req, table, counter) ==
    LET parse == JsonError(req.body)
        limit == RateLimiter(table, req.userId)
    IN  IF parse.thrown
        THEN [table |-> table, counter |-> counter,
              out |-> [ran |-> <<"errorHandler">>] @@ ErrorHandler(parse.message)]
        ELSE IF limit.reject
        THEN [table |-> limit.table, counter |-> counter,
              out |-> [ran |-> <<"rateLimiter">>, status |-> 429,
                       message |-> "You have made too many requests to ride1",
                       log |-> <<>>, sent |-> 1]]
        ELSE LET r == Route(req.path, req.age)
             IN  [table |-> limit.table, counter |-> counter + 1,
                  out |-> [ran |-> <<"rateLimiter", "requestCounter">> \o r.ran,
                           status |-> r.status, message |-> r.message,
                           log |-> <<"Total requests">> \o r.log,
                           sent |-> r.sent]]

UserIds == {Absent, Name("u1"), Name("u2"), Name("constructor")}
Paths == {"/", "/ride1", "/other"}
Ages == {Undefined, Str(<<"1", "6">>), Str(<<"1", "8">>), Str(<<"2", "5", "x">>)}

\* The requests: the age parameter matters to /ride1 alone, and a body that
\* does not parse ends the request before path and age are looked at
RideRequests ==
    [userId : UserIds, path : {"/ride1"}, age : Ages, body : {NoBody}]
    \cup [userId : UserIds, path : Paths \ {"/ride1"}, age : {Undefined},
          body : {NoBody}]
    \cup [userId : UserIds, path : {"/"}, age : {Undefined},
          body : {Body(b) : b \in MalformedBodies}]

\* History of the current window: per principal (the user-id header as
\* sent) the requests that entered the limiter and those it let through
NoCount == [seen |-> 0, passed |-> 0]
WindowOf(userId) == IF userId \in DOMAIN window THEN window[userId] ELSE NoCount

Serve_LostUpdate(req) ==
    LET h == HandleRequest(req, numberOfRide1Requests, requestCounter)
        key == PropertyKey(req.userId)
        entered == h.out.ran # <<>> /\ h.out.ran[1] = "rateLimiter"
        w == WindowOf(req.userId)
    IN  /\ numberOfRide1Requests' =
               IF \E r \in BagToSet(inflight') : r.userId = req.userId
               THEN numberOfRide1Requests ELSE h.table
        /\ requestCounter' = h.counter
        /\ window' = IF entered
                     THEN SetProperty(window, req.userId,
                              [seen |-> w.seen + 1,
                               passed |-> w.passed + (IF h.out.status = 429 THEN 0 ELSE 1)])
                     ELSE window
        /\ last' = [kind |-> "ride", req |-> req, key |-> key, out |-> h.out,
                    before |-> GetProperty(numberOfRide1Requests, key),
                    seen |-> IF entered THEN w.seen + 1 ELSE w.seen]

\* The synchronous part of a request: from the rate limiter to the response,
\* run to completion on the table and the counter as they are now
Serve(req) ==
    LET h == HandleRequest(req, numberOfRide1Requests, requestCounter)
        key == PropertyKey(req.userId)
        entered == h.out.ran # <<>> /\ h.out.ran[1] = "rateLimiter"
        w == WindowOf(req.userId)
    IN  /\ numberOfRide1Requests' = h.table
        /\ requestCounter' = h.counter
        /\ window' = IF entered
                     THEN SetProperty(window, req.userId,
                              [seen |-> w.seen + 1,
                               passed |-> w.passed + (IF h.out.status = 429 THEN 0 ELSE 1)])
                     ELSE window
        /\ last' = [kind |-> "ride", req |-> req, key |-> key, out |-> h.out,
                    before |-> GetProperty(numberOfRide1Requests, key),
                    seen |-> IF entered THEN w.seen + 1 ELSE w.seen]

\* A request arrives at the 4.4 server (without a body, or with one that
\* express.json() refuses)
Request(req) ==
    /\ srv = "middlewares"
    /\ received < MaxReceived
    /\ received' = received + 1
    /\ UNCHANGED <<srv, shareVars, factoryVars, kidney, loggedOut, authVars, draft, lastReset, inflight>>
    /\ Serve(req)

\* Requests with a JSON body: express.json() reads the body from the socket
\* before it calls next(), so several of them can be under way at once
PostedRequests ==
    [userId : {Name("u1")}, path : {"/ride1"},
     age : {Str(<<"1", "8">>)}, body : {Body("{}")}]

\* A request under way whose client has closed the connection after
\* sending the body
Gone(req) == req @@ [gone |-> TRUE]
IsGone(req) == "gone" \in DOMAIN req
InFlightRequests == PostedRequests \cup {Gone(req) : req \in PostedRequests}

\* A request with a body arrives: nothing but express.json() has seen it
Arrive(req) ==
    /\ srv = "middlewares"
    /\ received < MaxReceived
    /\ BagCardinality(inflight) < MaxInFlight
    /\ received' = received + 1
    /\ inflight' = inflight (+) SetToBag({req})
    /\ UNCHANGED <<srv, shareVars, factoryVars, kidney, loggedOut, authVars, draft, last, numberOfRide1Requests,
                   requestCounter, window, lastReset>>

\* The client of a request under way closes the connection.  No middleware
\* of the app listens for 'close' or looks at the socket: the request stays
\* under way
ClientDisconnects(req) ==
    /\ srv = "middlewares"
    /\ BagIn(req, inflight)
    /\ inflight' = (inflight (-) SetToBag({req})) (+) SetToBag({Gone(req)})
    /\ UNCHANGED <<srv, shareVars, factoryVars, kidney, loggedOut, authVars, draft, last, numberOfRide1Requests,
                   requestCounter, window, lastReset, received>>

\* express.json() has read the body of a request under way and calls
\* next(): the rest of the chain runs synchronously
BodyParsed(req) ==
    /\ srv = "middlewares"
    /\ BagIn(req, inflight)
    /\ inflight' = inflight (-) SetToBag({req})
    /\ Serve(req)
    /\ UNCHANGED <<srv, shareVars, factoryVars, kidney, loggedOut, authVars, draft, lastReset, received>>

TimerFires_KeepsCounters ==
    /\ srv = "middlewares"
    /\ numberOfRide1Requests' = numberOfRide1Requests
    /\ window' = EmptyTable
    /\ lastReset' = [fired |-> TRUE, table |-> numberOfRide1Requests,
                     window |-> window]
    /\ UNCHANGED <<srv, shareVars, factoryVars, kidney, loggedOut, authVars, draft, last, requestCounter, received, inflight>>

TimerFires_PerKey ==
    /\ srv = "middlewares"
    /\ numberOfRide1Requests' =
           [k \in DOMAIN numberOfRide1Requests \ {"u1"} |-> numberOfRide1Requests[k]]
    /\ window' = EmptyTable
    /\ lastReset' = [fired |-> TRUE, table |-> numberOfRide1Requests,
                     window |-> window]
    /\ UNCHANGED <<srv, shareVars, factoryVars, kidney, loggedOut, authVars, draft, last, requestCounter, received, inflight>>

\* The setInterval callback: the counter object is replaced by a fresh one
TimerFires ==
    /\ srv = "middlewares"
    /\ numberOfRide1Requests' = EmptyTable
    /\ window' = EmptyTable
    /\ lastReset' = [fired |-> TRUE, table |-> numberOfRide1Requests,
                     window |-> window]
    /\ UNCHANGED <<srv, shareVars, factoryVars, kidney, loggedOut, authVars, draft, last, requestCounter, received, inflight>>

RateNext ==
    \/ \E req \in RideRequests : Request(req)
    \/ \E req \in PostedRequests : Arrive(req)
    \/ \E req \in PostedRequests : ClientDisconnects(req)
    \/ \E req \in InFlightRequests : BodyParsed(req)
    \/ TimerFires

SpecRateInit ==
    /\ srv = "middlewares"
    /\ last = NoRequest
    /\ AuthInit
    /\ RateInit
    /\ IdleInit

SpecRate == SpecRateInit /\ [][RateNext]_vars

\* The 4.4 server with the promise of the event loop: a body that has
\* arrived is handed on by express.json() at some point
ServeSomeBody == \E req \in InFlightRequests : BodyParsed(req)

\* One principal's requests, one for every way through the chain: a ride,
\* a ride refused for age, the route that throws, an unknown path, and a body
\* express.json() cannot parse
LiveRequests == {req \in RideRequests : req.userId = Name("u1")}

RateLiveNext ==
    \/ \E req \in LiveRequests : Request(req)
    \/ \E req \in PostedRequests : Arrive(req)
    \/ \E req \in PostedRequests : ClientDisconnects(req)
    \/ ServeSomeBody
    \/ TimerFires

----------------------------------------------------------------------------
(* Both servers with the promises of the event loop: a request the socket   *)
(* layer has accepted gets its turn (callbacks run in the order they were   *)
(* queued, and every middleware chain returns).  The clock stands still     *)
(* while the requests under way are served.                                 *)

ShareLiveNext ==
    \/ StoreEmptied
    \/ \E req \in SharedRequests : RequestArrives(req)
    \/ \E req \in SharedRequests, f \in BOOLEAN : ProtectedRequestServed(req, f)

ServePending(req) == \E f \in BOOLEAN : ProtectedRequestServed(req, f)

LiveNext == RateLiveNext \/ ShareLiveNext

SpecLive ==
    /\ SpecRateInit \/ SpecShareInit
    /\ [][LiveNext]_vars
    /\ WF_vars(ServeSomeBody)
    /\ \A req \in SharedRequests : WF_vars(ServePending(req))

\* Every server of the pipeline: srv decides which one a behaviour runs
SpecPipeline == (SpecAuthInit \/ SpecRateInit) /\ [][AuthNext \/ RateNext]_vars

----------------------------------------------------------------------------
(* 6.1: a client that has signed in, logs out, and goes on using the token  *)
(* it was given                                                            *)

\* POST /logout: the cookie is cleared at the client, and that is all
Logout ==
    /\ srv = "deepdive"
    /\ draft' = [draft EXCEPT !.cookie = Undefined]
    /\ loggedOut' = TRUE
    /\ last' = [kind |-> "logout", status |-> 200,
                message |-> "Logged out successfully"]
    /\ UNCHANGED <<srv, authVars, rateVars, shareVars, factoryVars, kidney>>

\* What the client puts into a carrier: nothing, or the token it holds
HeldTokens == {Undefined, storedToken}
HeldAuthorization ==
    {Undefined} \cup (IF storedToken.def
                      THEN {Str(<<Bearer, SP>> \o storedToken.s)} ELSE {})

LogoutNext ==
    \/ Logout
    \/ Tick
    \/ StoreEmptied
    \/ \E u \in Usernames, p \in Passwords : Signup(u, p)
    \/ \E v \in HeldTokens : SetCookie(v)
    \/ \E v \in HeldAuthorization : SetAuthorization(v)
    \/ \E v \in HeldTokens : SetXAuthToken(v)
    \/ \E v \in HeldTokens : SetQuery(v)
    \/ \E f \in BOOLEAN : ProtectedRequest(f)

\* alice has signed up and, at clock 0, signed in
SpecLogoutInit ==
    /\ srv = "deepdive"
    /\ last = NoRequest
    /\ now = 0
    /\ users = <<[username |-> "alice", password |-> "pw"]>>
    /\ storedToken = Str(<<JwtSign("alice", JWT_SECRET, DeepdiveExpiresIn, 0)>>)
    /\ draft = BlankRequest
    /\ verified = {}
    /\ pending = {}
    /\ answered = {}
    /\ RateInit
    /\ IdleInit

SpecLogout == SpecLogoutInit /\ [][LogoutNext]_vars

----------------------------------------------------------------------------
(* 4.3: the kidney API ("kidney").  users[0].kidney is a list of booleans,  *)
(* TRUE for { healthy: true }                                              *)

\* The list is followed up to this length
MaxKidneys == 4

\* req.body.isHealthy: a boolean, a string, or missing
IsHealthyBodies ==
    {[t |-> "boolean", v |-> TRUE], [t |-> "boolean", v |-> FALSE],
     [t |-> "string"], [t |-> "undefined"]}

\* kidney.filter(kidney => !kidney.healthy) and its complement
Unhealthy(list) == SelectSeq(list, LAMBDA healthy : ~healthy)
Healthy(list) == SelectSeq(list, LAMBDA healthy : healthy)

KidneyReply(method, body, status, message) ==
    [kind |-> "kidney", method |-> method, body |-> body, status |-> status,
     message |-> message, before |-> kidney]

KidneyNotFound(method, body) ==
    /\ ~kidney.present
    /\ last' = KidneyReply(method, body, 404, "User not found")
    /\ UNCHANGED kidney

\* app.get('/')
KidneyGet ==
    /\ srv = "kidney"
    /\ \/ KidneyNotFound("GET", [t |-> "undefined"])
       \/ /\ kidney.present
          /\ last' = KidneyReply("GET", [t |-> "undefined"], 200, "John")
          /\ UNCHANGED kidney
    /\ UNCHANGED <<srv, authVars, rateVars, shareVars, factoryVars, draft, loggedOut>>

\* app.post('/')
KidneyPost(isHealthy) ==
    /\ srv = "kidney"
    /\ \/ KidneyNotFound("POST", isHealthy)
       \/ /\ kidney.present
          /\ isHealthy.t # "boolean"
          /\ last' = KidneyReply("POST", isHealthy, 400, "isHealthy must be a boolean")
          /\ UNCHANGED kidney
       \/ /\ kidney.present
          /\ isHealthy.t = "boolean"
          /\ Len(kidney.list) < MaxKidneys
          /\ kidney' = [kidney EXCEPT !.list = Append(@, isHealthy.v)]
          /\ last' = KidneyReply("POST", isHealthy, 200, "Kidney added successfully")
    /\ UNCHANGED <<srv, authVars, rateVars, shareVars, factoryVars, draft, loggedOut>>

HealAll_FirstOnly(list) ==
    [i \in 1..Len(list) |-> list[i] \/ (\A j \in 1..(i - 1) : list[j])]

\* kidney.forEach(kidney => { kidney.healthy = true })
HealAll(list) == [i \in 1..Len(list) |-> TRUE]

\* app.put('/')
KidneyPut ==
    /\ srv = "kidney"
    /\ \/ KidneyNotFound("PUT", [t |-> "undefined"])
       \/ /\ kidney.present
          /\ Len(Unhealthy(kidney.list)) = 0
          /\ last' = KidneyReply("PUT", [t |-> "undefined"], 400,
                                 "No unhealthy kidneys to update")
          /\ UNCHANGED kidney
       \/ /\ kidney.present
          /\ Len(Unhealthy(kidney.list)) # 0
          /\ kidney' = [kidney EXCEPT !.list = HealAll(@)]
          /\ last' = KidneyReply("PUT", [t |-> "undefined"], 200,
                                 "All kidneys updated to healthy")
    /\ UNCHANGED <<srv, authVars, rateVars, shareVars, factoryVars, draft, loggedOut>>

\* app.delete('/')
KidneyDelete ==
    /\ srv = "kidney"
    /\ \/ KidneyNotFound("DELETE", [t |-> "undefined"])
       \/ /\ kidney.present
          /\ Len(Unhealthy(kidney.list)) = 0
          /\ last' = KidneyReply("DELETE", [t |-> "undefined"], 411,
                                 "No unhealthy kidneys to remove")
          /\ UNCHANGED kidney
       \/ /\ kidney.present
          /\ Len(Unhealthy(kidney.list)) # 0
          /\ kidney' = [kidney EXCEPT !.list = Healthy(@)]
          /\ last' = KidneyReply("DELETE", [t |-> "undefined"], 200,
                                 "All unhealthy kidneys removed successfully")
    /\ UNCHANGED <<srv, authVars, rateVars, shareVars, factoryVars, draft, loggedOut>>

KidneyNext ==
    \/ KidneyGet
    \/ \E isHealthy \in IsHealthyBodies : KidneyPost(isHealthy)
    \/ KidneyPut
    \/ KidneyDelete

\* users.js holds John with his two kidneys, or no user
SpecKidneyInit ==
    /\ srv = "kidney"
    /\ last = NoRequest
    /\ AuthInit
    /\ RateInit
    /\ requests = [r \in FactoryRoutes |-> EmptyTable]
    /\ asked = [r \in FactoryRoutes |-> [ip \in Ips |-> 0]]
    /\ kidney \in {John, NoJohn}
    /\ loggedOut = FALSE

SpecKidney == SpecKidneyInit /\ [][KidneyNext]_vars

----------------------------------------------------------------------------
(* part_008: the rateLimiter(maxRequests) middleware factory ("factory")   *)

\* The arguments of the factory calls
DataMaxRequests == 5
FreeMaxRequests == 10
MaxRequestsOf(route) ==
    IF route = "/api/data" THEN DataMaxRequests ELSE FreeMaxRequests

\* A client is followed for this many requests beyond its limit
MaxOver == 2

LimiterInstance_Shared(route) == "/api/data"

\* `const requests = {}` inside rateLimiter: every call of the factory
\* makes an object of its own, which the middleware it returns closes over
LimiterInstance(route) == route

\* The middleware rateLimiter(maxRequests) returns, run on its counter
\* object for a request from address ip
rateLimiter(maxRequests, table, ip) ==
    LET value == OrZeroPlusOne(GetProperty(table, ip))
    IN  [table |-> SetProperty(table, ip, value),
         reject |-> GreaterThan(value, maxRequests)]

\* A request to a route behind a limiter; the handler answers 200
LimitedRequest(route, ip) ==
    LET instance == LimiterInstance(route)
        r == rateLimiter(MaxRequestsOf(route), requests[instance], ip)
    IN  /\ srv = "factory"
        /\ asked[route][ip] < MaxRequestsOf(route) + MaxOver
        /\ requests' = [requests EXCEPT ![instance] = r.table]
        /\ asked' = [asked EXCEPT ![route][ip] = @ + 1]
        /\ last' = [kind |-> "limited", route |-> route, ip |-> ip,
                    n |-> asked[route][ip] + 1,
                    status |-> IF r.reject THEN 429 ELSE 200,
                    message |-> IF r.reject THEN "Too many requests" ELSE "ok"]
        /\ UNCHANGED <<srv, authVars, rateVars, shareVars, draft, kidney, loggedOut>>

FactoryNext == \E route \in FactoryRoutes, ip \in Ips : LimitedRequest(route, ip)

SpecFactoryInit ==
    /\ srv = "factory"
    /\ last = NoRequest
    /\ AuthInit
    /\ RateInit
    /\ IdleInit

SpecFactory == SpecFactoryInit /\ [][FactoryNext]_vars

----------------------------------------------------------------------------
(* Properties of the credential resolver and the token verifier *)

IsAuth == last.kind = "auth"

\* The set of the stages a run went through
Stages(out) == {out.ran[i] : i \in 1..Len(out.ran)}

\* The token part of a 'Bearer ' Authorization header, undefined otherwise
BearerPart(req) ==
    IF StartsWithBearer(req.authorization)
    THEN SplitIndex1(req.authorization) ELSE Undefined

\* C1: a request carrying a non-empty cookie token and an Authorization
\* header with the 'Bearer ' prefix is resolved to the cookie token,
\* whatever the header, the custom header and the query parameter hold.
C1_CookieBeforeBearer ==
    (IsAuth /\ srv = "deepdive" /\ Truthy(last.req.cookie)
        /\ StartsWithBearer(last.req.authorization))
    => last.out.token = last.req.cookie

C1_Witness ==
    /\ IsAuth /\ srv = "deepdive"
    /\ Truthy(last.req.cookie)
    /\ Truthy(BearerPart(last.req))
    /\ BearerPart(last.req) # last.req.cookie
    /\ Truthy(last.req.xAuthToken) /\ Truthy(last.req.query)
    /\ last.out.token = last.req.cookie
    /\ last.out.status = 200

\* C2: the resolved token is the first non-empty candidate in the order
\* cookie, Bearer part of Authorization, x-auth-token, query parameter; an
\* empty Bearer part does not hide a later non-empty carrier.
FirstNonEmpty(cands) ==
    IF \E i \in 1..Len(cands) : Truthy(cands[i])
    THEN cands[CHOOSE i \in 1..Len(cands) :
                 /\ Truthy(cands[i])
                 /\ \A j \in 1..(i - 1) : ~Truthy(cands[j])]
    ELSE Undefined

C2_FirstNonEmptyCandidate ==
    (IsAuth /\ srv = "deepdive")
    => LET first == FirstNonEmpty(<<last.req.cookie, BearerPart(last.req),
                                    last.req.xAuthToken, last.req.query>>)
       IN  IF Truthy(first) THEN last.out.token = first
           ELSE ~Truthy(last.out.token)

\* C3: when the resolver finds no candidate, neither the verifier nor the
\* lookup nor a rate limiter nor the handler runs, and the response is the
\* server's no-credential rejection.
NoCredentialMessage ==
    IF srv = "deepdive" THEN "Authentication required. No token provided."
    ELSE IF srv = "bearer" THEN "Access token required"
    ELSE "Unauthorized"

IsJwt(token) == Len(token) = 1 /\ token[1].c = "jwt"
ServerSecret ==
    IF srv = "deepdive" THEN JWT_SECRET
    ELSE IF srv = "bearer" THEN BEARER_JWT_SECRET
    ELSE ZOD_JWT_SECRET
Respond(req, us, t, fault) ==
    IF srv = "deepdive" THEN authenticateToken(req, us, t, fault)
    ELSE IF srv = "bearer" THEN authenticateTokenBearer(req, t)
    ELSE auth(req, t)
Reply(out) == <<out.status, out.message>>
WithBearer(token) == [BlankRequest EXCEPT !.authorization = Str(<<Bearer, SP>> \o token)]

\* C4: a token signed with the server's secret and past its expiry is
\* reported as expired, a token signed with another key is reported as
\* invalid whatever its expiry, and the two reports differ.
C4_ExpiredVersusMalformed ==
    (IsAuth /\ Truthy(last.out.token) /\ IsJwt(last.out.token.s))
    => LET j == last.out.token.s[1]
           forged == Respond(WithBearer(<<Jwt(AttackerKey, j.username, j.hasExp, j.exp)>>),
                             last.users, last.at, FALSE)
       IN  /\ (j.key = ServerSecret /\ j.hasExp /\ last.at >= j.exp)
                => /\ last.out.ran = <<"resolve", "verify">>
                   /\ Reply(last.out) # Reply(forged)
           /\ (j.key # ServerSecret)
                => /\ last.out.ran = <<"resolve", "verify">>
                   /\ Reply(last.out) = Reply(forged)

Cause(req, us, t, fault) ==
    LET token == IF srv = "deepdive" THEN ResolveToken(req)
                 ELSE IF srv = "bearer" THEN BearerToken(req.authorization)
                 ELSE ZodToken(req.authorization)
    IN  IF ~Truthy(token) THEN "NoCredential"
        ELSE IF ~IsJwt(token.s) THEN "MalformedToken"
        ELSE IF token.s[1].key # ServerSecret THEN "MalformedToken"
        ELSE IF token.s[1].hasExp /\ t >= token.s[1].exp THEN "ExpiredToken"
        ELSE IF srv = "deepdive" /\ fault THEN "InternalFault"
        ELSE IF srv = "deepdive" /\ ~Find(us, token.s[1].username).found
        THEN "PrincipalNotFound"
        ELSE "Admitted"

Probes == {BlankRequest} \cup {WithBearer(t) : t \in Tokens}

\* C10: outcomes with different causes are never answered with the same
\* status and message (stated here for the outcomes a request's credential
\* decides; C8_LookupFaultIsInternalFault covers the internal fault).
C10_OutcomesDistinguishable ==
    (IsAuth /\ ~last.storeFault)
    => \A probe \in Probes :
          Cause(probe, last.users, last.at, FALSE)
              # Cause(last.req, last.users, last.at, FALSE)
          => Reply(Respond(probe, last.users, last.at, FALSE)) # Reply(last.out)

----------------------------------------------------------------------------
(* Properties of the rate limiter and the error handler *)

IsRide == last.kind = "ride"
EnteredLimiter == IsRide /\ last.out.ran # <<>> /\ last.out.ran[1] = "rateLimiter"

\* C5: within one window the limiter lets at most RateLimit requests of a
\* principal through, and rejects the next one with 429.
C5_AtMostLimitPerWindow ==
    /\ \A p \in DOMAIN window : window[p].passed <= RateLimit
    /\ (EnteredLimiter /\ last.seen > RateLimit) => last.out.status = 429

\* C6: after the timer fired, the next request of a principal that was over
\* the limit is let through and its counter is exactly 1, whatever the
\* counter was before.
WasLimited(userId) ==
    /\ lastReset.fired
    /\ GreaterThan(GetProperty(lastReset.table, PropertyKey(userId)), RateLimit)

C6_AdmittedAgainAfterReset ==
    (EnteredLimiter /\ WasLimited(last.req.userId)
        /\ WindowOf(last.req.userId).seen = 1)
    => /\ last.out.status # 429
       /\ "requestCounter" \in Stages(last.out)
       /\ GetProperty(numberOfRide1Requests, PropertyKey(last.req.userId)) = Num(1)

C6_Witness ==
    /\ EnteredLimiter /\ WasLimited(last.req.userId)
    /\ GetProperty(lastReset.table, PropertyKey(last.req.userId)) = Num(3)
    /\ WindowOf(last.req.userId).seen = 1
    /\ last.out.status = 200
    /\ numberOfRide1Requests[PropertyKey(last.req.userId)] = Num(1)

\* The counter of a principal after n requests of its own on a fresh table
RECURSIVE OwnCounter(_, _)
OwnCounter(userId, n) ==
    IF n = 0 THEN GetProperty(EmptyTable, PropertyKey(userId))
    ELSE OrZeroPlusOne(OwnCounter(userId, n - 1))

\* C7: a request of one principal leaves every other principal's counter as
\* it was, and whether a request is rejected is decided by the count of the
\* requests of its own principal in the current window alone.
C7_PrincipalsIndependent ==
    [][\A req \in RideRequests :
          (last'.kind = "ride" /\ last'.req = req /\ Request(req))
          => /\ \A p \in UserIds \ {req.userId} :
                   /\ GetProperty(numberOfRide1Requests', PropertyKey(p))
                        = GetProperty(numberOfRide1Requests, PropertyKey(p))
                   /\ WindowOf(p)' = WindowOf(p)
             /\ (last'.out.ran # <<>> /\ last'.out.ran[1] = "rateLimiter")
                  => ((last'.out.status = 429)
                        <=> GreaterThan(
                              OwnCounter(req.userId, WindowOf(req.userId).seen + 1),
                              RateLimit))]_vars

C7_Witness ==
    /\ EnteredLimiter
    /\ last.req.userId = Name("u1")
    /\ last.out.status = 200
    /\ WindowOf(Name("u1")) = [seen |-> 1, passed |-> 1]
    /\ WindowOf(Name("u2")) = [seen |-> 3, passed |-> 1]

\* C9: the error handler answers every fault with the same generic response,
\* whatever the text of the exception, and the fault is written to the log.
ErrorTexts ==
    {"This is a test error"} \cup {JsonError(Body(b)).message : b \in MalformedBodies}

C9_GenericErrorResponse ==
    (IsRide /\ last.out.status = 500)
    => /\ \A text \in ErrorTexts :
             ErrorHandler(text).message = last.out.message
       /\ \E i \in 1..Len(last.out.log) : last.out.log[i] \in ErrorTexts

----------------------------------------------------------------------------
(* Properties of the chain as a whole *)

\* The place of a stage in the chain of its server
StageRank(stage) ==
    CASE stage = "resolve" -> 1
      [] stage = "verify" -> 2
      [] stage = "lookup" -> 3
      [] stage = "rateLimiter" -> 4
      [] stage = "requestCounter" -> 5
      [] stage = "isOldEnough" -> 6
      [] stage \in {"handler", "route /", "route /ride1"} -> 7
      [] stage = "errorHandler" -> 8

\* What jwt.verify says about the token of the last request
LastVerify == JwtVerify(last.out.token.s, ServerSecret, last.at)

C13_AdmittedTokenIsValid ==
    (IsAuth /\ "handler" \in Stages(last.out))
    => /\ Truthy(last.out.token)
       /\ IsJwt(last.out.token.s)
       /\ last.out.token.s[1].key = ServerSecret
       /\ last.out.token.s[1].hasExp => last.at < last.out.token.s[1].exp

C13_Witness ==
    /\ IsAuth /\ "handler" \in Stages(last.out)
    /\ last.out.token.s[1].hasExp
    /\ last.at >= 1
    /\ last.at + 1 = last.out.token.s[1].exp

----------------------------------------------------------------------------
(* Properties of the counter table *)

\* The last request entered the limiter and no reset has happened since
CountedInWindow ==
    EnteredLimiter /\ WindowOf(last.req.userId).seen = last.seen

AtOrAboveLimit == last.before.t = "number" /\ last.before.n >= RateLimit

\* C15, as stated: a request that finds the counter at or above the maximum
\* is rejected and leaves the counter as it was, so that no counter exceeds
\* the maximum.
C15_RejectWithoutIncrement ==
    /\ (CountedInWindow /\ AtOrAboveLimit)
         => /\ last.out.status = 429
            /\ GetProperty(numberOfRide1Requests, last.key) = last.before
    /\ \A k \in DOMAIN numberOfRide1Requests :
          numberOfRide1Requests[k].t = "number"
            => numberOfRide1Requests[k].n <= RateLimit

\* C15, amended: a request that finds the counter at or above the maximum
\* is rejected, and it is counted like every other request: the counter
\* goes up by one and so exceeds the maximum.
C15_RejectedRequestsAreCounted ==
    (CountedInWindow /\ AtOrAboveLimit)
    => /\ last.out.status = 429
       /\ GetProperty(numberOfRide1Requests, last.key) = Num(last.before.n + 1)
       /\ last.before.n + 1 > RateLimit

C15_Witness ==
    /\ CountedInWindow
    /\ last.before = Num(2)
    /\ last.out.status = 429
    /\ numberOfRide1Requests[last.key] = Num(3)

\* C16: the counter of a principal is the number of its requests that
\* entered the limiter since the last reset, and a principal without such
\* a request has no entry.
C16_CounterEqualsRequestsEntered ==
    \A p \in UserIds :
        IF WindowOf(p).seen = 0
        THEN PropertyKey(p) \notin DOMAIN numberOfRide1Requests
        ELSE /\ PropertyKey(p) \in DOMAIN numberOfRide1Requests
             /\ numberOfRide1Requests[PropertyKey(p)] = Num(WindowOf(p).seen)

\* C17: whatever requests are under way and whenever the timer fires, the
\* table is what serving the requests of the window one after the other
\* gives (no increment is lost), and a request is decided as the one it is
\* in that order: two requests of a principal are never both the N-th.
C17_LimiterStepsAtomic ==
    /\ \A p \in UserIds :
          GetProperty(numberOfRide1Requests, PropertyKey(p))
              = OwnCounter(p, WindowOf(p).seen)
    /\ CountedInWindow
         => (last.out.status = 429
               <=> GreaterThan(OwnCounter(last.req.userId, last.seen), RateLimit))

C17_Witness ==
    /\ CountedInWindow
    /\ last.req \in PostedRequests
    /\ last.req.userId = Name("u1")
    /\ last.out.status = 200
    /\ CopiesIn(last.req, inflight) = 1
    /\ lastReset.fired

----------------------------------------------------------------------------
(* Properties of the principal lookup *)

UnknownPrincipal ==
    /\ IsAuth /\ ~last.storeFault
    /\ Truthy(last.out.token)
    /\ LastVerify.ok
    /\ ~Find(last.users, LastVerify.decoded.username).found

\* C19: a request whose token verifies but names no user of the store is
\* rejected and its handler does not run.
C19_UnknownPrincipalRejected ==
    (UnknownPrincipal /\ srv \in {"deepdive", "zod"})
    => /\ last.out.status \in 400..499
       /\ "handler" \notin Stages(last.out)

\* C20: a request through the authentication middleware, whatever its
\* outcome, leaves the user store as it was.
C20_PipelineLeavesStoreUnchanged ==
    [][(/\ last'.kind = "auth"
        /\ (\E f \in BOOLEAN : ProtectedRequest(f)) \/ BearerRequest \/ ZodRequest)
         => users' = users]_vars

C20_Witness ==
    /\ IsAuth /\ srv = "deepdive"
    /\ last.out.message = "User not found"
    /\ storedToken # Undefined
    /\ users = <<>>

----------------------------------------------------------------------------
(* Properties of cancellation, faults and the window timer *)

\* C23: a request whose client is gone still runs its stages, the limiter
\* counts it like any other request, and no response is written for it.
C23_DisconnectedRequestRunsSilently ==
    (IsRide /\ IsGone(last.req))
    => /\ "rateLimiter" \in Stages(last.out)
       /\ CountedInWindow
            => GetProperty(numberOfRide1Requests, last.key)
                 = OrZeroPlusOne(last.before)
       /\ last.out.sent = 0

\* C24: when express.json() or a route throws, the error-handling middleware
\* runs, once and as the last stage of the request, and the response is 500.
C24_FaultEndsInErrorStage ==
    IsRide
    => /\ JsonError(last.req.body).thrown => "errorHandler" \in Stages(last.out)
       /\ "route /" \in Stages(last.out) => "errorHandler" \in Stages(last.out)
       /\ "errorHandler" \in Stages(last.out)
            => /\ last.out.ran[Len(last.out.ran)] = "errorHandler"
               /\ Cardinality({i \in 1..Len(last.out.ran) :
                                  last.out.ran[i] = "errorHandler"}) = 1
               /\ last.out.status = 500
               /\ last.out.sent = 1

C24_Witness ==
    /\ IsRide
    /\ last.out.ran = <<"rateLimiter", "requestCounter", "route /", "errorHandler">>
    /\ last.out.status = 500
    /\ requestCounter = 2

\* The requests of a principal let through in the window the last timer
\* firing ended
PassedBeforeReset(userId) ==
    IF lastReset.fired /\ userId \in DOMAIN lastReset.window
    THEN lastReset.window[userId].passed ELSE 0

\* C25: across a timer firing a principal gets up to twice the limit
\* through, the limit right before the firing and the limit right after it,
\* and never more.
C25_TwiceTheLimitAcrossReset ==
    \A p \in UserIds :
        PropertyKey(p) \notin ObjectPrototypeKeys
        => PassedBeforeReset(p) + WindowOf(p).passed <= 2 * RateLimit

C25_Witness ==
    /\ lastReset.fired
    /\ PassedBeforeReset(Name("u1")) = RateLimit
    /\ WindowOf(Name("u1")).passed = RateLimit
    /\ received = 2 * RateLimit
    /\ inflight = EmptyBag

\* C26: the timer can fire in every state of the server, with or without
\* requests under way; a firing leaves the table empty for every key and
\* changes neither the request counter nor the requests under way nor the
\* user store nor the last response.
C26_TimerClearsWholesale ==
    /\ [](srv = "middlewares" => ENABLED TimerFires)
    /\ [][TimerFires
           => /\ numberOfRide1Requests' = EmptyTable
              /\ \A p \in UserIds :
                    GetProperty(numberOfRide1Requests', PropertyKey(p))
                        = GetProperty(EmptyTable, PropertyKey(p))
              /\ UNCHANGED <<requestCounter, inflight, users, last>>]_vars

C26_Witness ==
    /\ lastReset.fired
    /\ Cardinality(DOMAIN lastReset.table) >= 2
    /\ numberOfRide1Requests = EmptyTable
    /\ inflight # EmptyBag
    /\ requestCounter >= 1

\* C28: every request served has got exactly one response, and every
\* request under way, at the 4.4 server and at the 6.1 server, is served in
\* the end.
C28_ExactlyOneResponse ==
    /\ []((IsRide \/ IsAuth) => last.out.sent = 1)
    /\ (inflight # EmptyBag) ~> (inflight = EmptyBag)
    /\ \A req \in SharedRequests : (req \in pending) ~> (req \notin pending)

C28_Witness ==
    /\ IsRide
    /\ last.req \in InFlightRequests
    /\ last.out.status = 429
    /\ last.out.sent = 1
    /\ received = MaxReceived
    /\ inflight = EmptyBag

\* C30: once no request is under way, requestCounter is the number of
\* requests the server has received.
C30_CounterCountsEveryRequest ==
    (srv = "middlewares" /\ inflight = EmptyBag) => requestCounter = received

----------------------------------------------------------------------------
(* Properties of the request context and of the resolved token *)

\* C21 as written: an admitted request has the principal attached and no
\* other data of the pipeline.
C21_PrincipalAndNothingElse ==
    (IsAuth /\ srv = "deepdive" /\ last.out.status = 200)
    => /\ last.out.user.found
       /\ ~last.out.tokenData.present

\* C21: an admitted request has attached the store's record of the token's
\* user (req.user) and the decoded claims of the token (req.tokenData:
\* username and expiry, without the signing key), and these two only.
C21_PrincipalAndDecodedClaims ==
    (IsAuth /\ srv = "deepdive" /\ last.out.status = 200)
    => LET j == last.out.token.s[1]
       IN  /\ last.out.user.found
           /\ last.out.user = Find(last.users, j.username)
           /\ last.out.tokenData
                = [present |-> TRUE, username |-> j.username,
                   hasExp |-> j.hasExp, exp |-> j.exp]

C21_Witness ==
    /\ IsAuth /\ srv = "deepdive" /\ last.out.status = 200
    /\ last.out.user.username = "alice"
    /\ last.out.tokenData.present
    /\ last.out.tokenData.exp = DeepdiveExpiresIn + 1

\* What the selected carrier holds: for the Authorization header everything
\* after the 'Bearer ' prefix
AfterBearer(v) == Str(SubSeq(v.s, 3, Len(v.s)))
Carried(req) ==
    IF Truthy(req.cookie) THEN req.cookie
    ELSE IF StartsWithBearer(req.authorization) THEN AfterBearer(req.authorization)
    ELSE IF Truthy(req.xAuthToken) THEN req.xAuthToken
    ELSE req.query

\* C22: the candidate token is, symbol for symbol, what the selected carrier
\* holds, spaces included.
C22_TokenPassedThroughUnchanged ==
    (IsAuth /\ srv = "deepdive" /\ Truthy(Carried(last.req)))
    => last.out.token = Carried(last.req)

\* The request that presents a token through one carrier and nothing else
ViaCarrier(c, token) ==
    IF c = "cookie" THEN [BlankRequest EXCEPT !.cookie = Str(token)]
    ELSE IF c = "bearer"
    THEN [BlankRequest EXCEPT !.authorization = Str(<<Bearer, SP>> \o token)]
    ELSE IF c = "x-auth-token" THEN [BlankRequest EXCEPT !.xAuthToken = Str(token)]
    ELSE [BlankRequest EXCEPT !.query = Str(token)]

CarrierNames == {"cookie", "bearer", "x-auth-token", "query"}

\* C29: the token a signin issued, presented through one of the four
\* carriers before its expiry while the user it names is in the store and
\* the lookup does not fail, is admitted with that user as the principal.
C29_RoundTripAdmitted ==
    (/\ IsAuth /\ srv = "deepdive" /\ ~last.storeFault
     /\ storedToken.def
     /\ \E c \in CarrierNames : last.req = ViaCarrier(c, storedToken.s)
     /\ last.at < storedToken.s[1].exp
     /\ Find(last.users, storedToken.s[1].username).found)
    => /\ last.out.status = 200
       /\ last.out.user.found
       /\ last.out.user.username = storedToken.s[1].username

C29_Witness ==
    /\ IsAuth /\ srv = "deepdive" /\ storedToken.def
    /\ last.req = ViaCarrier("bearer", storedToken.s)
    /\ storedToken.s[1].username = "bob"
    /\ last.at = 1 /\ storedToken.s[1].exp = 2
    /\ last.out.status = 200
    /\ last.out.user.username = "bob"

----------------------------------------------------------------------------
(* Properties of the admitted principal, of the quota, and of the stores *)

\* C31: the user attached to an admitted request is a record of the user
\* list as it is when the request is served, and its username is the
\* username claim of the verified token.
C31_AdmittedAsTokensPrincipal ==
    (IsAuth /\ srv = "deepdive" /\ last.out.status = 200)
    => /\ \E i \in 1..Len(last.users) :
             /\ last.users[i].username = last.out.user.username
             /\ last.users[i].password = last.out.user.password
       /\ IsJwt(last.out.token.s)
       /\ last.out.user.username = last.out.token.s[1].username

C31_Witness ==
    /\ IsAuth /\ srv = "deepdive" /\ last.out.status = 200
    /\ Len(last.users) = 2
    /\ last.users[1].username = "alice"
    /\ last.out.user.username = "bob"
    /\ last.out.token.s[1].username = "bob"

\* C32: when a request that passed the limiter was answered 401 by the age
\* check or 500 by the error handler, the next request of the same principal
\* that reaches the limiter before the timer fires is answered 429.
C32_QuotaSpentByRejectedRequest ==
    [][(/\ last'.kind = "ride" /\ last' # last
        /\ EnteredLimiter /\ CountedInWindow
        /\ last.out.status \in {401, 500}
        /\ last'.req.userId = last.req.userId
        /\ last'.out.ran # <<>> /\ last'.out.ran[1] = "rateLimiter")
       => last'.out.status = 429]_vars

C34_FirstMaxRequestsThenNever ==
    /\ last.kind = "limited"
         => (last.status = 429 <=> last.n > MaxRequestsOf(last.route))
    /\ \A route \in FactoryRoutes, ip \in Ips :
          GetProperty(requests[route], ip)
              = IF asked[route][ip] = 0 THEN UndefinedValue
                ELSE Num(asked[route][ip])

C34_Witness ==
    /\ last.kind = "limited"
    /\ last.route = "/api/free" /\ last.n = DataMaxRequests + 1
    /\ last.status = 200
    /\ GetProperty(requests["/api/data"], last.ip) = Num(DataMaxRequests + MaxOver)
    /\ GetProperty(requests["/api/free"], last.ip) = Num(DataMaxRequests + 1)

InMemoryList == srv \in {"deepdive", "bearer"}

\* C35: the user list never holds two records of one username; a signup
\* that lacks the username or the password is answered 400, a complete one
\* for a username of the list 409, and neither changes the list.
C35_UsernamesUnique ==
    /\ [](InMemoryList
            => \A i, j \in 1..Len(users) :
                  users[i].username = users[j].username => i = j)
    /\ [][\A u \in BodyUsernames, p \in BodyPasswords :
            (last'.kind = "signup" /\ InMemoryList /\ Signup(u, p))
            => /\ (u = "" \/ p = "") => last'.status = 400
               /\ (u # "" /\ p # "" /\ \E i \in 1..Len(users) : users[i].username = u)
                    => last'.status = 409
               /\ last'.status \in {400, 409} => users' = users
               /\ last'.status \notin {400, 409}
                    => users' = Append(users, [username |-> u, password |-> p])]_vars

C35_Witness ==
    /\ srv = "bearer"
    /\ last.kind = "signup" /\ last.status = 409
    /\ last.username = "alice"
    /\ Len(users) = 2
    /\ users[2].username = "alice"

\* C36: after a logout, the token the client was given, presented alone in
\* the Authorization header, the x-auth-token header or the query before its
\* expiry, is admitted as long as its user is in the list, and is answered
\* 'User not found' when the user is not; a logout changes nothing at the
\* server.
C36_LogoutDoesNotRevoke ==
    /\ []((/\ IsAuth /\ loggedOut /\ ~last.storeFault
           /\ \E c \in CarrierNames \ {"cookie"} :
                 last.req = ViaCarrier(c, storedToken.s)
           /\ last.at < storedToken.s[1].exp)
          => IF Find(last.users, storedToken.s[1].username).found
             THEN /\ last.out.status = 200
                  /\ last.out.user.username = storedToken.s[1].username
             ELSE last.out.message = "User not found")
    /\ [][Logout => UNCHANGED <<users, now, storedToken, verified>>]_vars

C36_Witness ==
    /\ IsAuth /\ loggedOut
    /\ last.req = ViaCarrier("query", storedToken.s)
    /\ last.at = 0
    /\ last.out.status = 200
    /\ last.out.user.username = "alice"

\* C37: a token /login of the week-7 server has issued has no exp claim and
\* verifies at every clock value; presented as 'Bearer <token>' it is
\* admitted whenever it is presented and whatever the users collection
\* holds, without a lookup of the user.
C37_TokenAdmittedForever ==
    (srv = "zod" /\ storedToken.def)
    => /\ ~storedToken.s[1].hasExp
       /\ \A t \in 0..MaxTime : JwtVerify(storedToken.s, ZOD_JWT_SECRET, t).ok
       /\ (IsAuth /\ last.req.authorization = Str(<<Bearer, SP>> \o storedToken.s))
            => /\ last.out.status = 200
               /\ last.out.ran = <<"resolve", "verify", "handler">>
               /\ last.out.user.username = storedToken.s[1].username

C37_Witness ==
    /\ srv = "zod" /\ storedToken.def /\ IsAuth
    /\ last.req.authorization = Str(<<Bearer, SP>> \o storedToken.s)
    /\ last.at = MaxTime
    /\ last.users = <<>>
    /\ last.out.status = 200

IsKidney == last.kind = "kidney"

\* C38: after a PUT or DELETE answered 200 the list holds no unhealthy
\* kidney, and a PUT right after it is answered 400, a DELETE 411; a
\* request answered 400, 404 or 411 leaves the list as it was; a DELETE
\* keeps every healthy kidney.
C38_KidneyErrorsChangeNothing ==
    /\ []((IsKidney /\ last.status \in {400, 404, 411}) => kidney = last.before)
    /\ []((IsKidney /\ last.method \in {"PUT", "DELETE"} /\ last.status = 200)
            => /\ Len(Unhealthy(kidney.list)) = 0
               /\ last.method = "DELETE" => kidney.list = Healthy(last.before.list)
               /\ last.method = "PUT" => Len(kidney.list) = Len(last.before.list))
    /\ [][(/\ IsKidney /\ last.method \in {"PUT", "DELETE"} /\ last.status = 200
           /\ last'.kind = "kidney" /\ last' # last)
          => /\ last'.method = "PUT" => last'.status = 400
             /\ last'.method = "DELETE" => last'.status = 411]_vars

C38_Witness ==
    /\ IsKidney /\ last.method = "DELETE" /\ last.status = 411
    /\ last.before.present
    /\ last.before.list = <<TRUE, TRUE, TRUE>>
    /\ kidney.list = <<TRUE, TRUE, TRUE>>

====
